---- MODULE Spec2Model ----
(***************************************************************************)
(* KidVentures Learning assessment (src/App.py): a Streamlit script.       *)
(* The session keeps the widget values and the stored API credential; each *)
(* interaction reruns the script top to bottom.  A run is modelled step by *)
(* step (pc), the analysis provider and the PDF library as collaborators   *)
(* whose outcome is chosen nondeterministically.                           *)
(***************************************************************************)
EXTENDS Integers, Sequences, FiniteSets, TLC

\* ------------------------------------------------------------------ bounds

\* The user changes the answers of the first MaxEditable questions only.
MaxEditable == 1
\* The user moves the "Analysis Detail" slider at most this many steps away
\* from its default.
MaxSliderSteps == 1
\* Scorer inputs: at most this many of q1..q7 hold something else than a
\* declared option (an arbitrary text, or no entry at all).
MaxInvalid == 1
\* An analysis text has at most this many blocks between blank lines.
MaxBlocks == 2
\* generate_pdf_report is called at most this often on the same arguments.
MaxReports == 2
\* The document closes at most this many pages.
MaxPages == 3
\* The document draws at most this many flowables on a page.
MaxDraws == 1

\* ------------------------------------------------------------- python values

\* Python's None, kept apart from every text.
None == "<None>"

\* Truthiness of an answer value, as all(...) tests it.
truthy(v) == v # None /\ v # ""

\* ------------------------------------------------------------ str.lower, in

UpperCase == "ABCDEFGHIJKLMNOPQRSTUVWXYZ"
LowerCase == "abcdefghijklmnopqrstuvwxyz"

lower_table ==
    [c \in {SubSeq(UpperCase, i, i) : i \in 1..Len(UpperCase)} |->
        LET i == CHOOSE j \in 1..Len(UpperCase) : SubSeq(UpperCase, j, j) = c
        IN  SubSeq(LowerCase, i, i)]

RECURSIVE lower(_)
\* str.lower(): every upper-case letter replaced, everything else kept.
lower(s) ==
    IF Len(s) = 0 THEN ""
    ELSE LET c == SubSeq(s, 1, 1)
         IN  (IF c \in DOMAIN lower_table THEN lower_table[c] ELSE c)
                 \o lower(SubSeq(s, 2, Len(s)))

\* Python's `k in s` on strings: k occurs as a substring of s.
contains(k, s) ==
    \E i \in 1..(Len(s) - Len(k) + 1) : SubSeq(s, i, i + Len(k) - 1) = k

\* ---------------------------------------------------------------- questions

NumQuestions == 30

QKeys ==
    << "q1", "q2", "q3", "q4", "q5", "q6", "q7", "q8", "q9", "q10",
       "q11", "q12", "q13", "q14", "q15", "q16", "q17", "q18", "q19", "q20",
       "q21", "q22", "q23", "q24", "q25", "q26", "q27", "q28", "q29", "q30" >>

AllKeys == {QKeys[i] : i \in 1..NumQuestions}

\* The literal option lists passed to render_radio_question.
Options ==
    [k \in AllKeys |->
        CASE k = "q1" -> << "Seeing them written down or in a picture",
                            "Hearing them spoken aloud",
                            "Doing a physical activity associated with them" >>
          [] k = "q2" -> << "Look carefully at the diagrams in the manual",
                            "Ask someone to read the instructions to them",
                            "Ignore the instructions and figure it out by handling the pieces" >>
          [] k = "q3" -> << "Drawing, doodling, or making visual aids",
                            "Talking, telling stories, or singing songs",
                            "Gesturing, acting things out, or building models" >>
          [] k = "q4" -> << "Try to visualize what the word looks like",
                            "Sound out the letters phonetically",
                            "Write it down or trace the letters with their finger" >>
          [] k = "q5" -> << "Messy or cluttered visual surroundings",
                            "Noises and other people talking",
                            "Having to sit still for long periods" >>
          [] k = "q6" -> << "Lots of detailed illustrations or photographs",
                            "A captivating narrator or read aloud with expression",
                            "Interactive elements like flaps or textures to feel" >>
          [] k \in {"q7", "q8", "q9", "q10", "q11", "q12"} ->
                         << "Very often", "Sometimes", "Rarely" >>
          [] k \in {"q13", "q14", "q15", "q16", "q17", "q18"} ->
                         << "Describes my child well",
                            "Describes my child somewhat",
                            "Does not describe my child" >>
          [] k \in {"q19", "q20", "q21", "q22", "q23", "q24"} ->
                         << "Usually", "Sometimes", "Rarely" >>
          [] OTHER    -> << "Strongly agree", "Agree", "Disagree" >>]

OptionSet(k) == {Options[k][i] : i \in 1..Len(Options[k])}

\* ------------------------------------------------------------------- scorer

Categories == << "visual", "auditory", "kinesthetic" >>

LearningKeys == << "q1", "q2", "q3", "q4", "q5", "q6" >>

learning_map_typo ==
    [q1 |-> << "written", "spoken", "physical" >>,
     q2 |-> << "diagramm", "read", "handling" >>,
     q3 |-> << "drawing", "talking", "gesturing" >>,
     q4 |-> << "visualize", "sound", "write" >>,
     q5 |-> << "messy", "noise", "sit still" >>,
     q6 |-> << "illustr", "captivat", "interact" >>]

learning_map_swapped ==
    [q1 |-> << "written", "spoken", "physical" >>,
     q2 |-> << "diagram", "read", "handling" >>,
     q3 |-> << "drawing", "talking", "gesturing" >>,
     q4 |-> << "sound", "visualize", "write" >>,
     q5 |-> << "messy", "noise", "sit still" >>,
     q6 |-> << "illustr", "captivat", "interact" >>]

\* The per-question keyword triples: visual, auditory, kinesthetic.
learning_map ==
    [q1 |-> << "written", "spoken", "physical" >>,
     q2 |-> << "diagram", "read", "handling" >>,
     q3 |-> << "drawing", "talking", "gesturing" >>,
     q4 |-> << "visualize", "sound", "write" >>,
     q5 |-> << "messy", "noise", "sit still" >>,
     q6 |-> << "illustr", "captivat", "interact" >>]

\* answers.get(q_key, default)
get(answers, q_key, default) ==
    IF q_key \in DOMAIN answers THEN answers[q_key] ELSE default

\* The loop body with independent ifs instead of the if/elif chain.
score_answer_no_elif(scores, keywords, answer) ==
    LET v == contains(keywords[1], answer) \/ contains("visual", answer)
                \/ contains("picture", answer)
        a == contains(keywords[2], answer) \/ contains("audi", answer)
                \/ contains("hear", answer)
        k == contains(keywords[3], answer) \/ contains("kines", answer)
                \/ contains("doing", answer) \/ contains("build", answer)
                \/ contains("texture", answer)
    IN  [visual      |-> scores.visual + (IF v THEN 1 ELSE 0),
         auditory    |-> scores.auditory + (IF a THEN 1 ELSE 0),
         kinesthetic |-> scores.kinesthetic + (IF k THEN 1 ELSE 0)]

\* The loop body with the increments doubled.
score_answer_double(scores, keywords, answer) ==
    IF contains(keywords[1], answer) \/ contains("visual", answer)
            \/ contains("picture", answer)
    THEN [scores EXCEPT !.visual = @ + 2]
    ELSE IF contains(keywords[2], answer) \/ contains("audi", answer)
            \/ contains("hear", answer)
    THEN [scores EXCEPT !.auditory = @ + 2]
    ELSE IF contains(keywords[3], answer) \/ contains("kines", answer)
            \/ contains("doing", answer) \/ contains("build", answer)
            \/ contains("texture", answer)
    THEN [scores EXCEPT !.kinesthetic = @ + 2]
    ELSE scores

\* One iteration of the loop of calculate_dimension_scores: the if/elif chain
\* on the lower-cased answer.
score_answer(scores, keywords, answer) ==
    IF contains(keywords[1], answer) \/ contains("visual", answer)
            \/ contains("picture", answer)
    THEN [scores EXCEPT !.visual = @ + 1]
    ELSE IF contains(keywords[2], answer) \/ contains("audi", answer)
            \/ contains("hear", answer)
    THEN [scores EXCEPT !.auditory = @ + 1]
    ELSE IF contains(keywords[3], answer) \/ contains("kines", answer)
            \/ contains("doing", answer) \/ contains("build", answer)
            \/ contains("texture", answer)
    THEN [scores EXCEPT !.kinesthetic = @ + 1]
    ELSE scores

RECURSIVE score_loop(_, _, _)
\* for q_key, keywords in learning_map.items(): from the i-th key on.
score_loop(scores, answers, i) ==
    IF i > Len(LearningKeys) THEN scores
    ELSE LET q_key == LearningKeys[i]
             answer == lower(get(answers, q_key, ""))
         IN  score_loop(score_answer(scores, learning_map[q_key], answer),
                        answers, i + 1)

calculate_dimension_scores(answers) ==
    score_loop([visual |-> 0, auditory |-> 0, kinesthetic |-> 0], answers, 1)

\* --------------------------------------------------------- configuration

\* st.selectbox("AI Model", [...], index=0)
Models == << "gpt-4o", "gpt-4o-mini", "gpt-4-turbo" >>

\* st.slider("Analysis Detail", min_value, max_value, value, step)
SliderMin == 600
SliderMax == 1500
SliderDefault == 1000
SliderStep == 100

SliderValues == {SliderMin + SliderStep * i : i \in 0..((SliderMax - SliderMin) \div SliderStep)}

\* The slider positions the user visits.
SliderReach ==
    {d \in SliderValues : /\ d >= SliderDefault - MaxSliderSteps * SliderStep
                          /\ d <= SliderDefault + MaxSliderSteps * SliderStep}

\* os.getenv('OPENAI_API_KEY', ''): unset, or the key of the environment.
EnvKeys == {"", "sk-env"}
\* What the user types into the credential field ("" clears it).
TypedKeys == {"", "sk-user"}

\* ------------------------------------------------------------ collaborators

\* response.choices[0].message.content: a text, or None.
ProviderTexts ==
    {"## Executive Summary\n\nA strongly visual learner.",
     "Learns best by doing.\n\n**KEY INSIGHT:** hands-on <b>practice"}

\* str(e) of what client.chat.completions.create raises.
ProviderErrors ==
    {"Incorrect API key provided", "Connection error.", "Rate limit reached"}

\* str(e) of what generate_pdf_report raises on an analysis text: the
\* paragraph parser quotes the beginning of the offending paragraph.
PdfErrors(text) ==
    {"xml parser error in paragraph beginning '"
        \o SubSeq(text, 1, IF Len(text) < 30 THEN Len(text) ELSE 30) \o "'"}

NoneTypeError == "'NoneType' object has no attribute 'split'"

\* ----------------------------------------------------------------- messages

IncompleteMsg == "Please answer all 30 questions before generating the report."
MissingKeyMsg == "Please enter your OpenAI API key in the sidebar."
ErrorPrefix == "Error: "

\* -------------------------------------------------------------------- state

VARIABLES
    openai_api_key,   \* st.session_state.openai_api_key
    api_key_widget,   \* text of the sidebar credential field
    model_widget,     \* selection of the model selectbox
    depth_widget,     \* position of the slider
    radio,            \* selection of the 30 radio widgets, by key
    rerun_request,    \* interaction waiting for a rerun: none, rerun, submit
    pc,               \* position of the running script ("idle": finished)
    submitted,        \* value of the form's submit button in this run
    model_choice,     \* locals of the run
    analysis_depth,
    answers,
    client,
    request,
    analysis,
    exc,
    pdf_buffer,
    in_flight,        \* provider calls sent and not yet returned
    page,             \* elements the run has put on the page
    timestamp,        \* generate_pdf_report: its timestamp argument
    story,            \* generate_pdf_report: the list of flowables
    reports,          \* the stories handed to doc.build so far
    canv,             \* the NumberedCanvas of a build
    shown             \* the pages closed with showPage, as they were drawn

session_vars == << openai_api_key, api_key_widget, model_widget, depth_widget, radio >>
local_vars == << model_choice, analysis_depth, answers, client, request,
                 analysis, exc, pdf_buffer >>
report_vars == << timestamp, story, reports, canv, shown >>
vars == << openai_api_key, api_key_widget, model_widget, depth_widget, radio,
           rerun_request, pc, submitted, model_choice, analysis_depth, answers,
           client, request, analysis, exc, pdf_buffer, in_flight, page,
           timestamp, story, reports, canv, shown >>

\* No report is being composed and no canvas exists.
NoReport ==
    /\ timestamp = None
    /\ story = << >>
    /\ reports = << >>
    /\ canv = << >>
    /\ shown = << >>

EmptyDict == [k \in {} |-> ""]

EmptyPage ==
    [key_status |-> "", error |-> "", info |-> FALSE, spinner |-> FALSE,
     success |-> FALSE, download |-> << >>, preview |-> None, metrics |-> << >>]

\* A fresh script namespace.
FreshLocals ==
    /\ model_choice' = None
    /\ analysis_depth' = 0
    /\ answers' = EmptyDict
    /\ client' = << >>
    /\ request' = << >>
    /\ analysis' = None
    /\ exc' = None
    /\ pdf_buffer' = << >>

RECURSIVE join_responses(_, _)
\* "\n".join([f"{k}: {v}" for k, v in answers.items()]), from the i-th key on.
join_responses(dict, i) ==
    IF i > NumQuestions THEN ""
    ELSE IF QKeys[i] \notin DOMAIN dict THEN join_responses(dict, i + 1)
    ELSE QKeys[i] \o ": " \o dict[QKeys[i]]
            \o (IF \E j \in (i + 1)..NumQuestions : QKeys[j] \in DOMAIN dict
                THEN "\n" ELSE "")
            \o join_responses(dict, i + 1)

\* Positions whose next statement is a Streamlit call: a waiting rerun stops
\* the script there.  Between entering the spinner and st.success the script
\* makes none.
YieldPointsWithCall ==
    {"sidebar", "form", "process", "calling", "success", "download", "preview",
     "scores", "except", "footer"}

YieldPoints ==
    {"sidebar", "form", "process", "success", "download", "preview",
     "scores", "except", "footer"}

\* A session whose radios start with nothing selected.
InitNoSelection ==
    /\ openai_api_key \in EnvKeys
    /\ api_key_widget = openai_api_key
    /\ model_widget = Models[1]
    /\ depth_widget = SliderDefault
    /\ radio = [k \in AllKeys |-> None]
    /\ rerun_request = "none"
    /\ pc = "sidebar"
    /\ submitted = FALSE
    /\ model_choice = None
    /\ analysis_depth = 0
    /\ answers = EmptyDict
    /\ client = << >>
    /\ request = << >>
    /\ analysis = None
    /\ exc = None
    /\ pdf_buffer = << >>
    /\ in_flight = 0
    /\ page = EmptyPage
    /\ NoReport

\* The session right after the first lines of the script, in its first run.
Init ==
    /\ openai_api_key \in EnvKeys
    /\ api_key_widget = openai_api_key
    /\ model_widget = Models[1]
    /\ depth_widget = SliderDefault
    /\ radio = [k \in AllKeys |-> Options[k][1]]
    /\ rerun_request = "none"
    /\ pc = "sidebar"
    /\ submitted = FALSE
    /\ model_choice = None
    /\ analysis_depth = 0
    /\ answers = EmptyDict
    /\ client = << >>
    /\ request = << >>
    /\ analysis = None
    /\ exc = None
    /\ pdf_buffer = << >>
    /\ in_flight = 0
    /\ page = EmptyPage
    /\ NoReport

\* ------------------------------------------------------------ the user

\* A widget outside the form changed: Streamlit asks for a rerun; a waiting
\* form submission stays a submission.
Merge(req) == IF req = "submit" THEN "submit" ELSE "rerun"

\* The user picks option o of question k.  Radios of a form ask for no rerun.
SelectOption(k, o) ==
    /\ radio[k] # Options[k][o]
    /\ radio' = [radio EXCEPT ![k] = Options[k][o]]
    /\ UNCHANGED << openai_api_key, api_key_widget, model_widget, depth_widget,
                    rerun_request, pc, submitted, in_flight, page >>
    /\ UNCHANGED local_vars
    /\ UNCHANGED report_vars

TypeApiKey(k) ==
    /\ api_key_widget # k
    /\ api_key_widget' = k
    /\ rerun_request' = Merge(rerun_request)
    /\ UNCHANGED << openai_api_key, model_widget, depth_widget, radio,
                    pc, submitted, in_flight, page >>
    /\ UNCHANGED local_vars
    /\ UNCHANGED report_vars

\* The model and the slider are changed while no script runs.
ChooseModel(m) ==
    /\ pc = "idle"
    /\ model_widget # m
    /\ model_widget' = m
    /\ rerun_request' = Merge(rerun_request)
    /\ UNCHANGED << openai_api_key, api_key_widget, depth_widget, radio,
                    pc, submitted, in_flight, page >>
    /\ UNCHANGED local_vars
    /\ UNCHANGED report_vars

MoveSlider(d) ==
    /\ pc = "idle"
    /\ depth_widget # d
    /\ depth_widget' = d
    /\ rerun_request' = Merge(rerun_request)
    /\ UNCHANGED << openai_api_key, api_key_widget, model_widget, radio,
                    pc, submitted, in_flight, page >>
    /\ UNCHANGED local_vars
    /\ UNCHANGED report_vars

\* The submit button of the form is clicked (also while a script runs).
ClickSubmit ==
    /\ rerun_request # "submit"
    /\ rerun_request' = "submit"
    /\ UNCHANGED << pc, submitted, in_flight, page >>
    /\ UNCHANGED session_vars
    /\ UNCHANGED local_vars
    /\ UNCHANGED report_vars

\* ------------------------------------------------------------ the script

\* Streamlit starts the script again for the waiting interaction, once the
\* running script is finished or has reached its next Streamlit call.
Rerun ==
    /\ rerun_request # "none"
    /\ pc \in YieldPoints \cup {"idle"}
    /\ submitted' = (rerun_request = "submit")
    /\ rerun_request' = "none"
    /\ pc' = "sidebar"
    /\ page' = EmptyPage
    /\ FreshLocals
    /\ UNCHANGED in_flight
    /\ UNCHANGED session_vars
    /\ UNCHANGED report_vars

\* A sidebar that stores whatever the credential field holds.
SidebarAlwaysStores ==
    /\ pc = "sidebar"
    /\ IF api_key_widget # ""
       THEN /\ openai_api_key' = api_key_widget
            /\ page' = [page EXCEPT !.key_status = "configured"]
       ELSE /\ openai_api_key' = api_key_widget
            /\ page' = [page EXCEPT !.key_status = "warning"]
    /\ model_choice' = model_widget
    /\ analysis_depth' = depth_widget
    /\ pc' = "form"
    /\ UNCHANGED << api_key_widget, model_widget, depth_widget, radio,
                    rerun_request, submitted, answers, client, request,
                    analysis, exc, pdf_buffer, in_flight >>
    /\ UNCHANGED report_vars

\* The sidebar: credential field, model and slider.
Sidebar ==
    /\ pc = "sidebar"
    /\ IF api_key_widget # ""
       THEN /\ openai_api_key' = api_key_widget
            /\ page' = [page EXCEPT !.key_status = "configured"]
       ELSE /\ openai_api_key' = openai_api_key
            /\ page' = [page EXCEPT !.key_status = "warning"]
    /\ model_choice' = model_widget
    /\ analysis_depth' = depth_widget
    /\ pc' = "form"
    /\ UNCHANGED << api_key_widget, model_widget, depth_widget, radio,
                    rerun_request, submitted, answers, client, request,
                    analysis, exc, pdf_buffer, in_flight >>
    /\ UNCHANGED report_vars

\* A form that leaves the first question out of the Answer Set.
FormDropsKey ==
    /\ pc = "form"
    /\ answers' = [k \in AllKeys \ {QKeys[1]} |-> radio[k]]
    /\ pc' = "process"
    /\ UNCHANGED << rerun_request, submitted, model_choice, analysis_depth,
                    client, request, analysis, exc, pdf_buffer, in_flight, page >>
    /\ UNCHANGED session_vars
    /\ UNCHANGED report_vars

\* with st.form(...): answers[q] = st.radio(...) for the 30 questions.
Form ==
    /\ pc = "form"
    /\ answers' = [k \in AllKeys |-> radio[k]]
    /\ pc' = "process"
    /\ UNCHANGED << rerun_request, submitted, model_choice, analysis_depth,
                    client, request, analysis, exc, pdf_buffer, in_flight, page >>
    /\ UNCHANGED session_vars
    /\ UNCHANGED report_vars

all_values(dict) == \A k \in DOMAIN dict : truthy(dict[k])

\* The validation with the credential test left out.
ProcessNoKeyTest ==
    /\ pc = "process"
    /\ IF ~submitted
       THEN /\ pc' = "footer"
            /\ page' = page
       ELSE IF ~all_values(answers)
       THEN /\ pc' = "footer"
            /\ page' = [page EXCEPT !.error = IncompleteMsg]
       ELSE /\ pc' = "call"
            /\ page' = [page EXCEPT !.spinner = TRUE]
    /\ UNCHANGED << rerun_request, submitted, in_flight >>
    /\ UNCHANGED session_vars
    /\ UNCHANGED local_vars
    /\ UNCHANGED report_vars

\* The validation with the completeness test left out.
ProcessNoAnswerTest ==
    /\ pc = "process"
    /\ IF ~submitted
       THEN /\ pc' = "footer"
            /\ page' = page
       ELSE IF openai_api_key = ""
       THEN /\ pc' = "footer"
            /\ page' = [page EXCEPT !.error = MissingKeyMsg]
       ELSE /\ pc' = "call"
            /\ page' = [page EXCEPT !.spinner = TRUE]
    /\ UNCHANGED << rerun_request, submitted, in_flight >>
    /\ UNCHANGED session_vars
    /\ UNCHANGED local_vars
    /\ UNCHANGED report_vars

\* The two validations in the other order.
ProcessKeyFirst ==
    /\ pc = "process"
    /\ IF ~submitted
       THEN /\ pc' = "footer"
            /\ page' = page
       ELSE IF openai_api_key = ""
       THEN /\ pc' = "footer"
            /\ page' = [page EXCEPT !.error = MissingKeyMsg]
       ELSE IF ~all_values(answers)
       THEN /\ pc' = "footer"
            /\ page' = [page EXCEPT !.error = IncompleteMsg]
       ELSE /\ pc' = "call"
            /\ page' = [page EXCEPT !.spinner = TRUE]
    /\ UNCHANGED << rerun_request, submitted, in_flight >>
    /\ UNCHANGED session_vars
    /\ UNCHANGED local_vars
    /\ UNCHANGED report_vars

\* if submitted: the two validations, then the spinner.
Process ==
    /\ pc = "process"
    /\ IF ~submitted
       THEN /\ pc' = "footer"
            /\ page' = page
       ELSE IF ~all_values(answers)
       THEN /\ pc' = "footer"
            /\ page' = [page EXCEPT !.error = IncompleteMsg]
       ELSE IF openai_api_key = ""
       THEN /\ pc' = "footer"
            /\ page' = [page EXCEPT !.error = MissingKeyMsg]
       ELSE /\ pc' = "call"
            /\ page' = [page EXCEPT !.spinner = TRUE]
    /\ UNCHANGED << rerun_request, submitted, in_flight >>
    /\ UNCHANGED session_vars
    /\ UNCHANGED local_vars
    /\ UNCHANGED report_vars

\* client = OpenAI(...); the prompt; client.chat.completions.create(...) is
\* sent and the script blocks.
SendRequest ==
    /\ pc = "call"
    /\ client' = << [api_key |-> openai_api_key] >>
    /\ request' = << [api_key |-> openai_api_key, model |-> model_choice,
                      max_tokens |-> analysis_depth,
                      user_responses |-> join_responses(answers, 1)] >>
    /\ in_flight' = in_flight + 1
    /\ pc' = "calling"
    /\ UNCHANGED << rerun_request, submitted, model_choice, analysis_depth,
                    answers, analysis, exc, pdf_buffer, page >>
    /\ UNCHANGED session_vars
    /\ UNCHANGED report_vars

\* The provider answers: analysis = response.choices[0].message.content.
ProviderResponds(text) ==
    /\ pc = "calling"
    /\ in_flight' = in_flight - 1
    /\ analysis' = text
    /\ pc' = "compose"
    /\ UNCHANGED << rerun_request, submitted, model_choice, analysis_depth,
                    answers, client, request, exc, pdf_buffer, page >>
    /\ UNCHANGED session_vars
    /\ UNCHANGED report_vars

\* A failing call that leaves the text received so far in the exception.
ProviderFailsPartial(e) ==
    /\ pc = "calling"
    /\ in_flight' = in_flight - 1
    /\ \E t \in ProviderTexts : exc' = e \o ": " \o SubSeq(t, 1, 10)
    /\ pc' = "except"
    /\ UNCHANGED << rerun_request, submitted, model_choice, analysis_depth,
                    answers, client, request, analysis, pdf_buffer, page >>
    /\ UNCHANGED session_vars
    /\ UNCHANGED report_vars

\* The call raises: the script jumps to the except clause.
ProviderFails(e) ==
    /\ pc = "calling"
    /\ in_flight' = in_flight - 1
    /\ exc' = e
    /\ pc' = "except"
    /\ UNCHANGED << rerun_request, submitted, model_choice, analysis_depth,
                    answers, client, request, analysis, pdf_buffer, page >>
    /\ UNCHANGED session_vars
    /\ UNCHANGED report_vars

\* The report as generate_pdf_report composes it from its arguments.
Report(text, dict, model) ==
    [analysis |-> text, answers |-> dict, model |-> model,
     scores |-> calculate_dimension_scores(dict)]

\* Composition whose failure is not raised: the script goes on without a PDF.
ComposePDFSwallow ==
    /\ pc = "compose"
    /\ \/ /\ analysis # None
          /\ pdf_buffer' = << Report(analysis, answers, model_choice) >>
          /\ exc' = exc
          /\ pc' = "success"
          /\ page' = page
       \/ /\ exc' \in (IF analysis = None THEN {NoneTypeError} ELSE PdfErrors(analysis))
          /\ pdf_buffer' = pdf_buffer
          /\ page' = [page EXCEPT !.error = ErrorPrefix \o exc']
          /\ pc' = "success"
    /\ UNCHANGED << rerun_request, submitted, model_choice, analysis_depth,
                    answers, client, request, analysis, in_flight >>
    /\ UNCHANGED session_vars
    /\ UNCHANGED report_vars

\* pdf_buffer = generate_pdf_report(analysis, answers, timestamp, model_choice):
\* the buffer, or an exception of the PDF library (always one for None).
ComposePDF ==
    /\ pc = "compose"
    /\ \/ /\ analysis # None
          /\ pdf_buffer' = << Report(analysis, answers, model_choice) >>
          /\ exc' = exc
          /\ pc' = "success"
       \/ /\ exc' \in (IF analysis = None THEN {NoneTypeError} ELSE PdfErrors(analysis))
          /\ pdf_buffer' = pdf_buffer
          /\ pc' = "except"
    /\ UNCHANGED << rerun_request, submitted, model_choice, analysis_depth,
                    answers, client, request, analysis, in_flight, page >>
    /\ UNCHANGED session_vars
    /\ UNCHANGED report_vars

\* st.success(...)
ShowSuccess ==
    /\ pc = "success"
    /\ page' = [page EXCEPT !.success = TRUE]
    /\ pc' = "download"
    /\ UNCHANGED << rerun_request, submitted, in_flight >>
    /\ UNCHANGED session_vars
    /\ UNCHANGED local_vars
    /\ UNCHANGED report_vars

\* st.download_button(..., data=pdf_buffer, mime="application/pdf")
OfferDownload ==
    /\ pc = "download"
    /\ page' = [page EXCEPT !.download = << [data |-> pdf_buffer, mime |-> "application/pdf"] >>]
    /\ pc' = "preview"
    /\ UNCHANGED << rerun_request, submitted, in_flight >>
    /\ UNCHANGED session_vars
    /\ UNCHANGED local_vars
    /\ UNCHANGED report_vars

\* with st.expander(...): st.markdown(analysis)
ShowPreview ==
    /\ pc = "preview"
    /\ page' = [page EXCEPT !.preview = analysis]
    /\ pc' = "scores"
    /\ UNCHANGED << rerun_request, submitted, in_flight >>
    /\ UNCHANGED session_vars
    /\ UNCHANGED local_vars
    /\ UNCHANGED report_vars

\* scores = calculate_dimension_scores(answers); the three st.metric.
ShowScores ==
    /\ pc = "scores"
    /\ page' = [page EXCEPT !.metrics = << calculate_dimension_scores(answers) >>]
    /\ pc' = "footer"
    /\ UNCHANGED << rerun_request, submitted, in_flight >>
    /\ UNCHANGED session_vars
    /\ UNCHANGED local_vars
    /\ UNCHANGED report_vars

\* An except clause that also resets the form to its first options.
HandleExceptionReset ==
    /\ pc = "except"
    /\ page' = [page EXCEPT !.error = ErrorPrefix \o exc, !.info = TRUE]
    /\ radio' = [k \in AllKeys |-> Options[k][1]]
    /\ pc' = "footer"
    /\ UNCHANGED << openai_api_key, api_key_widget, model_widget, depth_widget,
                    rerun_request, submitted, in_flight >>
    /\ UNCHANGED local_vars
    /\ UNCHANGED report_vars

\* except Exception as e: st.error(f"Error: {str(e)}"); st.info(...)
HandleException ==
    /\ pc = "except"
    /\ page' = [page EXCEPT !.error = ErrorPrefix \o exc, !.info = TRUE]
    /\ pc' = "footer"
    /\ UNCHANGED << rerun_request, submitted, in_flight >>
    /\ UNCHANGED session_vars
    /\ UNCHANGED local_vars
    /\ UNCHANGED report_vars

\* The closing st.markdown calls; the script ends and its namespace goes.
Footer ==
    /\ pc = "footer"
    /\ pc' = "idle"
    /\ page' = [page EXCEPT !.spinner = FALSE]
    /\ FreshLocals
    /\ UNCHANGED << rerun_request, submitted, in_flight >>
    /\ UNCHANGED session_vars
    /\ UNCHANGED report_vars

EditableKeys == {QKeys[i] : i \in 1..MaxEditable}

Next ==
    \/ \E k \in EditableKeys, o \in 1..3 : SelectOption(k, o)
    \/ \E k \in TypedKeys : TypeApiKey(k)
    \/ \E i \in 1..Len(Models) : ChooseModel(Models[i])
    \/ \E d \in SliderReach : MoveSlider(d)
    \/ ClickSubmit
    \/ Rerun
    \/ Sidebar
    \/ Form
    \/ Process
    \/ SendRequest
    \/ \E text \in ProviderTexts \cup {None} : ProviderResponds(text)
    \/ \E e \in ProviderErrors : ProviderFails(e)
    \/ ComposePDF
    \/ ShowSuccess
    \/ OfferDownload
    \/ ShowPreview
    \/ ShowScores
    \/ HandleException
    \/ Footer

Spec == Init /\ [][Next]_vars

\* ------------------------------------------- the submission block alone

\* The block "if submitted:" run on what the form hands it, whatever the
\* radios returned: a declared option, None (nothing selected) or "".
BlockKeys == EditableKeys \cup {QKeys[NumQuestions]}

BlockInputs ==
    {[k \in AllKeys |-> IF k \in BlockKeys THEN f[k] ELSE Options[k][1]] :
        f \in [BlockKeys -> OptionSet("q1") \cup OptionSet("q30") \cup {None, ""}]}

InitBlock ==
    /\ openai_api_key \in EnvKeys
    /\ api_key_widget = openai_api_key
    /\ model_widget = Models[1]
    /\ depth_widget = SliderDefault
    /\ radio \in BlockInputs
    /\ rerun_request = "none"
    /\ pc = "process"
    /\ submitted = TRUE
    /\ model_choice = model_widget
    /\ analysis_depth = depth_widget
    /\ answers = radio
    /\ client = << >>
    /\ request = << >>
    /\ analysis = None
    /\ exc = None
    /\ pdf_buffer = << >>
    /\ in_flight = 0
    /\ page = [EmptyPage EXCEPT !.key_status =
                    IF openai_api_key # "" THEN "configured" ELSE "warning"]
    /\ NoReport

NextBlock ==
    \/ Process
    \/ SendRequest
    \/ \E text \in ProviderTexts \cup {None} : ProviderResponds(text)
    \/ \E e \in ProviderErrors : ProviderFails(e)
    \/ ComposePDF
    \/ ShowSuccess
    \/ OfferDownload
    \/ ShowPreview
    \/ ShowScores
    \/ HandleException
    \/ Footer

SpecBlock == InitBlock /\ [][NextBlock]_vars

\* ------------------------------------------------------ the scorer alone

LearningKeySet == {LearningKeys[i] : i \in 1..Len(LearningKeys)}

\* Texts that are no declared option.
OddTexts ==
    << "A PICTURE to HEAR while DOING", "Hearing and building",
       "Neither of these" >>

\* The keys whose entry may be odd or missing: q1..q6 and q7.
ScoreKeys == LearningKeySet \cup {QKeys[Len(LearningKeys) + 1]}

\* calculate_dimension_scores applied to Answer Sets of every kind: each of
\* q1..q6 on any of its options, up to MaxInvalid entries odd or missing.
InitScore ==
    /\ \E base \in [LearningKeySet -> 1..3] :
       \E S \in {T \in SUBSET ScoreKeys : Cardinality(T) <= MaxInvalid} :
       \E odd \in [S -> 0..Len(OddTexts)] :
          answers = [k \in AllKeys \ {j \in S : odd[j] = 0} |->
                        IF k \in S THEN OddTexts[odd[k]]
                        ELSE IF k \in LearningKeySet THEN Options[k][base[k]]
                        ELSE Options[k][1]]
    /\ openai_api_key = "sk-env"
    /\ api_key_widget = openai_api_key
    /\ model_widget = Models[1]
    /\ depth_widget = SliderDefault
    /\ radio = [k \in AllKeys |-> Options[k][1]]
    /\ rerun_request = "none"
    /\ pc = "scores"
    /\ submitted = TRUE
    /\ model_choice = model_widget
    /\ analysis_depth = depth_widget
    /\ client = << >>
    /\ request = << >>
    /\ analysis = None
    /\ exc = None
    /\ pdf_buffer = << >>
    /\ in_flight = 0
    /\ page = EmptyPage
    /\ NoReport

NextScore == ShowScores

SpecScore == InitScore /\ [][NextScore]_vars

\* ------------------------------------------------- the report composer

\* Characters outside ASCII are written as a name in braces: "{target}".

\* str.startswith, str.strip, str.find (0: not found), str.split and
\* str.replace of Python.
startswith(s, p) == Len(s) >= Len(p) /\ SubSeq(s, 1, Len(p)) = p

Whitespace == {" ", "\n", "\t"}

RECURSIVE lstrip(_)
lstrip(s) ==
    IF s # "" /\ SubSeq(s, 1, 1) \in Whitespace
    THEN lstrip(SubSeq(s, 2, Len(s)))
    ELSE s

RECURSIVE rstrip(_)
rstrip(s) ==
    IF s # "" /\ SubSeq(s, Len(s), Len(s)) \in Whitespace
    THEN rstrip(SubSeq(s, 1, Len(s) - 1))
    ELSE s

strip(s) == rstrip(lstrip(s))

find(s, sub) ==
    LET hits == {i \in 1..(Len(s) - Len(sub) + 1) :
                    SubSeq(s, i, i + Len(sub) - 1) = sub}
    IN  IF hits = {} THEN 0 ELSE CHOOSE i \in hits : \A j \in hits : i <= j

RECURSIVE split(_, _)
split(s, sep) ==
    LET i == find(s, sep)
    IN  IF i = 0 THEN << s >>
        ELSE << SubSeq(s, 1, i - 1) >>
                \o split(SubSeq(s, i + Len(sep), Len(s)), sep)

RECURSIVE replace(_, _, _)
replace(s, old, new) ==
    LET i == find(s, old)
    IN  IF i = 0 THEN s
        ELSE SubSeq(s, 1, i - 1) \o new
                \o replace(SubSeq(s, i + Len(old), Len(s)), old, new)

\* The flowables of the story.  A Spacer keeps its height in inches, an
\* HRFlowable its thickness, a Table and a Drawing their data.
Paragraph(text, style) ==
    [flowable |-> "Paragraph", text |-> text, style |-> style, data |-> << >>]

Spacer(height) ==
    [flowable |-> "Spacer", text |-> height, style |-> "", data |-> << >>]

HRFlowable(thickness) ==
    [flowable |-> "HRFlowable", text |-> thickness, style |-> "", data |-> << >>]

PageBreak ==
    [flowable |-> "PageBreak", text |-> "", style |-> "", data |-> << >>]

Table(data) ==
    [flowable |-> "Table", text |-> "", style |-> "", data |-> data]

Drawing(data) ==
    [flowable |-> "Drawing", text |-> "", style |-> "", data |-> data]

\* The cover page.
info_data(stamp, model) ==
    << << "Report Generated:", stamp >>,
       << "AI Model:", model >>,
       << "Analysis Type:", "Five-Dimension Comprehensive Profile" >>,
       << "Report Version:", "2.5" >> >>

mission_text ==
    "<i>\"At KidVentures Learning, we believe every child is uniquely created by God with specific gifts, talents, and a divine purpose. This comprehensive assessment reveals your child's learning profile across five critical dimensions, empowering you to support their educational journey with confidence and biblical wisdom.\"</i>"

cover_page(stamp, model) ==
    << Spacer("0.5"),
       Paragraph("KidVentures Learning", "title_style"),
       Paragraph("Comprehensive Learning Profile Assessment", "subtitle_style"),
       Spacer("0.5"),
       HRFlowable("2"),
       Spacer("0.3"),
       Table(info_data(stamp, model)),
       Spacer("0.5"),
       Paragraph(mission_text, "body_style"),
       Spacer("0.5"),
       Paragraph("{email} info@kidventureslearning.com | {phone} (404) 631-6320 | {globe} www.kidventureslearning.com",
                 "contact_style"),
       PageBreak >>

\* The table of contents.
toc_data ==
    << << "Section", "Page" >>,
       << "Executive Summary", "3" >>,
       << "Learning Style Analysis", "4" >>,
       << "Cognitive Strengths Profile", "5" >>,
       << "Developmental Orientation", "6" >>,
       << "Social-Emotional Landscape", "7" >>,
       << "Biblical Identity & Purpose", "8" >>,
       << "Personalized Recommendations", "9" >>,
       << "Assessment Responses", "11" >>,
       << "Next Steps & Resources", "12" >> >>

table_of_contents ==
    << Paragraph("Table of Contents", "heading1_style"),
       Spacer("0.2"),
       Table(toc_data),
       PageBreak >>

\* The pie chart: drawn only for a positive total.
create_learning_style_chart(scores) ==
    IF scores.visual + scores.auditory + scores.kinesthetic > 0
    THEN Drawing(<< << "Visual\n" \o ToString(scores.visual) \o "/6",
                       "Auditory\n" \o ToString(scores.auditory) \o "/6",
                       "Kinesthetic\n" \o ToString(scores.kinesthetic) \o "/6" >> >>)
    ELSE Drawing(<< >>)

\* f"{(n / 6) * 100:.0f}"
percent(n) == ToString((n * 100 + 3) \div 6)

interpretation(scores) ==
    "<b>Learning Style Breakdown:</b><br/>"
        \o "{bullet} Visual Learning: " \o percent(scores.visual) \o "% ("
        \o ToString(scores.visual) \o "/6 indicators)<br/>"
        \o "{bullet} Auditory Learning: " \o percent(scores.auditory) \o "% ("
        \o ToString(scores.auditory) \o "/6 indicators)<br/>"
        \o "{bullet} Kinesthetic Learning: " \o percent(scores.kinesthetic) \o "% ("
        \o ToString(scores.kinesthetic) \o "/6 indicators)<br/><br/>"
        \o "This distribution reveals your child's preferred ways of receiving and processing information."

learning_style_distribution(dict) ==
    LET scores == calculate_dimension_scores(dict)
    IN  << Paragraph("Learning Style Distribution", "heading1_style"),
           Spacer("0.2"),
           create_learning_style_chart(scores),
           Spacer("0.2") >>
        \o (IF scores.visual + scores.auditory + scores.kinesthetic > 0
            THEN << Paragraph(interpretation(scores), "body_style") >>
            ELSE << >>)
        \o << PageBreak >>

\* The analysis text, block by block.
Emojis ==
    << "{target}", "{books}", "{brain}", "{heart}", "{cross}", "{rocket}",
       "{star}" >>

RECURSIVE remove_emojis(_, _)
remove_emojis(s, i) ==
    IF i > Len(Emojis) THEN s
    ELSE remove_emojis(replace(s, Emojis[i], ""), i + 1)

\* The paragraph made of one block that is not blank.
section_paragraph(section) ==
    IF startswith(strip(section), "##")
    THEN Paragraph(strip(remove_emojis(replace(strip(section), "##", ""), 1)),
                   "heading2_style")
    ELSE IF startswith(strip(section), "#")
    THEN Paragraph(strip(replace(strip(section), "#", "")), "heading1_style")
    ELSE IF startswith(strip(section), "**") \/ contains("**KEY INSIGHT:**", section)
    THEN Paragraph(replace(section, "**", ""), "highlight_style")
    ELSE Paragraph(section, "body_style")

RECURSIVE analysis_sections(_, _)
\* for section in analysis_sections: ..., from the i-th block on.
analysis_sections(sections, i) ==
    IF i > Len(sections) THEN << >>
    ELSE IF strip(sections[i]) = "" THEN analysis_sections(sections, i + 1)
    ELSE << section_paragraph(sections[i]), Spacer("0.1") >>
            \o analysis_sections(sections, i + 1)

ai_analysis(text) ==
    << Paragraph("Comprehensive AI Analysis", "heading1_style"),
       Spacer("0.2") >>
        \o analysis_sections(split(text, "\n\n"), 1)
        \o << PageBreak >>

\* The answers, one table per dimension.
dimensions ==
    << [dimension |-> "Learning Style Preferences",
        questions |-> << "q1", "q2", "q3", "q4", "q5", "q6" >>],
       [dimension |-> "Developmental Orientation",
        questions |-> << "q7", "q8", "q9", "q10", "q11", "q12" >>],
       [dimension |-> "Cognitive Strengths",
        questions |-> << "q13", "q14", "q15", "q16", "q17", "q18" >>],
       [dimension |-> "Social-Emotional Profile",
        questions |-> << "q19", "q20", "q21", "q22", "q23", "q24" >>],
       [dimension |-> "Biblical Identity Markers",
        questions |-> << "q25", "q26", "q27", "q28", "q29", "q30" >>] >>

question_texts ==
    [q1 |-> "My child tends to remember things best after...",
     q2 |-> "When assembling a new toy, they are most likely to...",
     q3 |-> "Express themselves and their ideas through...",
     q4 |-> "When spelling a new word, they often...",
     q5 |-> "Most distracted in classroom by...",
     q6 |-> "Enjoy books that have...",
     q7 |-> "Organizes the plan and makes sure everyone knows their role",
     q8 |-> "Comes up with imaginative and original ideas",
     q9 |-> "Focuses on making sure everyone feels included",
     q10 |-> "Is eager to start building or making physical parts",
     q11 |-> "Enjoys improving systems or processes",
     q12 |-> "Would rather invent a new game than play by rules",
     q13 |-> "Shows talent for solving logic puzzles or asking why questions",
     q14 |-> "Reading, writing stories, or large vocabulary",
     q15 |-> "Recognizing melodies, good sense of rhythm, or drawn to instruments",
     q16 |-> "Navigating new places, reading maps, or enjoys drawing/painting",
     q17 |-> "Understanding other people's feelings and cooperating in groups",
     q18 |-> "Being in nature, caring for animals, or noticing natural details",
     q19 |-> "Able to calmly express their feelings, even when upset",
     q20 |-> "Prefers playing with one or two close friends rather than large group",
     q21 |-> "Easily picks up on the moods and emotions of people around them",
     q22 |-> "Can bounce back from disappointments or setbacks",
     q23 |-> "Comfortable starting conversations with new children",
     q24 |-> "Will stand up for others or try to mediate conflicts",
     q25 |-> "Praised for their unique ideas and creative spirit (Created)",
     q26 |-> "Given a special role or purpose that helps others (Called)",
     q27 |-> "Recognized for a specific skill or talent developed (Capable)",
     q28 |-> "Feeling like a valued member of family/team/church (Connected)",
     q29 |-> "Encouraged to use personal gifts to bless someone else",
     q30 |-> "Reminded that they are loved unconditionally"]

\* The rows of a table in descending question order.
response_data_reversed(questions, dict) ==
    << << "Question", "Response" >> >>
        \o [i \in 1..Len(questions) |->
                << get(question_texts, questions[Len(questions) + 1 - i],
                       questions[Len(questions) + 1 - i]),
                   get(dict, questions[Len(questions) + 1 - i], "Not answered") >>]

response_data(questions, dict) ==
    << << "Question", "Response" >> >>
        \o [i \in 1..Len(questions) |->
                << get(question_texts, questions[i], questions[i]),
                   get(dict, questions[i], "Not answered") >>]

RECURSIVE assessment_tables(_, _)
\* for dimension, questions in dimensions.items(): ..., from the d-th on.
assessment_tables(dict, d) ==
    IF d > Len(dimensions) THEN << >>
    ELSE << Paragraph("<b>" \o dimensions[d].dimension \o "</b>", "heading2_style"),
            Table(response_data(dimensions[d].questions, dict)),
            Spacer("0.2") >>
            \o assessment_tables(dict, d + 1)

assessment_responses(dict) ==
    << Paragraph("Complete Assessment Responses", "heading1_style"),
       Spacer("0.2") >>
        \o assessment_tables(dict, 1)
        \o << PageBreak >>

\* The action plan and the contact box.
next_steps ==
    "<b>Immediate Actions (This Week):</b><br/>"
        \o "{box} Share this report with your child's teacher or educational team<br/>"
        \o "{box} Discuss one key strength with your child to affirm their identity<br/>"
        \o "{box} Implement one learning style recommendation in your home<br/>"
        \o "{box} Create a dedicated study space that matches their learning preferences<br/><br/>"
        \o "<b>Short-term Goals (This Month):</b><br/>"
        \o "{box} Schedule a family meeting to discuss the Biblical identity insights<br/>"
        \o "{box} Adjust homework routines based on learning style recommendations<br/>"
        \o "{box} Explore enrichment activities that align with cognitive strengths<br/>"
        \o "{box} Connect with other parents of children with similar profiles<br/><br/>"
        \o "<b>Long-term Development (This Year):</b><br/>"
        \o "{box} Track progress and note changes in learning preferences<br/>"
        \o "{box} Schedule follow-up assessment in 6-12 months<br/>"
        \o "{box} Build a portfolio of work that showcases their unique strengths<br/>"
        \o "{box} Develop a personalized education plan with measurable goals<br/><br/>"
        \o "<b>Resources & Support:</b><br/>"
        \o "{bullet} <b>Consultation:</b> Schedule a 1-on-1 consultation with our learning specialists<br/>"
        \o "{bullet} <b>Workshops:</b> Attend our monthly parent workshops on learning styles<br/>"
        \o "{bullet} <b>Community:</b> Join our online community of KidVentures families<br/>"
        \o "{bullet} <b>Materials:</b> Access our library of learning resources tailored to your child's profile<br/>"

contact_box ==
    "<b>Ready to Take the Next Step?</b><br/><br/>"
        \o "Contact KidVentures Learning today to discuss how we can support your child's unique learning journey.<br/><br/>"
        \o "{email} Email: info@kidventureslearning.com<br/>"
        \o "{phone} Phone: (404) 631-6320<br/>"
        \o "{globe} Website: www.kidventureslearning.com<br/><br/>"
        \o "<i>Learning with Confidence. Leading with Purpose.</i>"

action_plan ==
    << Paragraph("Next Steps & Action Plan", "heading1_style"),
       Spacer("0.2"),
       Paragraph(next_steps, "body_style"),
       Spacer("0.3"),
       HRFlowable("1"),
       Spacer("0.2"),
       Paragraph(contact_box, "recommendation_style") >>

\* generate_pdf_report step by step.  Every step leaves all but the story
\* and the position alone.
composer_frame ==
    << openai_api_key, api_key_widget, model_widget, depth_widget, radio,
       rerun_request, submitted, model_choice, analysis_depth, answers, client,
       request, analysis, exc, in_flight, page, timestamp, reports, canv,
       shown >>

\* A cover that numbers the reports of the session.
ComposeCoverNumbered ==
    /\ pc = "pdf_cover"
    /\ story' = << Paragraph("Report " \o ToString(Len(reports) + 1), "title_style") >>
                    \o cover_page(timestamp, model_choice)
    /\ pc' = "pdf_contents"
    /\ UNCHANGED pdf_buffer
    /\ UNCHANGED composer_frame

\* story = []; the cover page.
ComposeCover ==
    /\ pc = "pdf_cover"
    /\ story' = cover_page(timestamp, model_choice)
    /\ pc' = "pdf_contents"
    /\ UNCHANGED pdf_buffer
    /\ UNCHANGED composer_frame

ComposeContents ==
    /\ pc = "pdf_contents"
    /\ story' = story \o table_of_contents
    /\ pc' = "pdf_chart"
    /\ UNCHANGED pdf_buffer
    /\ UNCHANGED composer_frame

ComposeChart ==
    /\ pc = "pdf_chart"
    /\ story' = story \o learning_style_distribution(answers)
    /\ pc' = "pdf_analysis"
    /\ UNCHANGED pdf_buffer
    /\ UNCHANGED composer_frame

ComposeAnalysis ==
    /\ pc = "pdf_analysis"
    /\ story' = story \o ai_analysis(analysis)
    /\ pc' = "pdf_responses"
    /\ UNCHANGED pdf_buffer
    /\ UNCHANGED composer_frame

ComposeResponses ==
    /\ pc = "pdf_responses"
    /\ story' = story \o assessment_responses(answers)
    /\ pc' = "pdf_plan"
    /\ UNCHANGED pdf_buffer
    /\ UNCHANGED composer_frame

ComposeActionPlan ==
    /\ pc = "pdf_plan"
    /\ story' = story \o action_plan
    /\ pc' = "pdf_build"
    /\ UNCHANGED pdf_buffer
    /\ UNCHANGED composer_frame

\* doc.build(story, canvasmaker=NumberedCanvas) takes the flowables off the
\* list; buffer.seek(0); return buffer.
BuildDocument ==
    /\ pc = "pdf_build"
    /\ reports' = Append(reports, story)
    /\ story' = << >>
    /\ pdf_buffer' = << Report(analysis, answers, model_choice) >>
    /\ pc' = "pdf_returned"
    /\ UNCHANGED << openai_api_key, api_key_widget, model_widget, depth_widget,
                    radio, rerun_request, submitted, model_choice,
                    analysis_depth, answers, client, request, analysis, exc,
                    in_flight, page, timestamp, canv, shown >>

\* datetime.now().strftime("%Y-%m-%d %H:%M:%S") of the n-th submission.
Now(n) == "2024-01-01 10:00:0" \o ToString(n)

\* The next submission has the same answers, model and analysis text, and
\* calls generate_pdf_report again.
ComposeAgain ==
    /\ pc = "pdf_returned"
    /\ Len(reports) < MaxReports
    /\ timestamp' = Now(Len(reports) + 1)
    /\ pdf_buffer' = << >>
    /\ pc' = "pdf_cover"
    /\ UNCHANGED << openai_api_key, api_key_widget, model_widget, depth_widget,
                    radio, rerun_request, submitted, model_choice,
                    analysis_depth, answers, client, request, analysis, exc,
                    in_flight, page, story, reports, canv, shown >>

\* Blocks of an analysis text: headings of the three levels, with and without
\* a body on the next line, body text, a highlight, a blank block.
Blocks ==
    << "## Executive Summary",
       "## {target} Primary Learning Style\nMostly visual, partly kinesthetic.",
       "# Learning Profile",
       "### For Parents (5-6 strategies)",
       "A strongly visual learner.",
       "**KEY INSIGHT:** learns by doing",
       "Ask them to draw it.\n## Closing Affirmation",
       "  " >>

RECURSIVE join_blocks(_)
join_blocks(seq) ==
    IF Len(seq) = 1 THEN Blocks[seq[1]]
    ELSE Blocks[seq[1]] \o "\n\n" \o join_blocks(Tail(seq))

ReportTexts ==
    {join_blocks(seq) :
        seq \in UNION {[1..n -> 1..Len(Blocks)] : n \in 1..MaxBlocks}}

FirstOptions == [k \in AllKeys |-> Options[k][1]]

\* Answer Sets: the untouched form, a changed option, absent keys, and one
\* without q1..q6 (all scores 0).
ReportAnswers ==
    { FirstOptions,
      [FirstOptions EXCEPT !["q1"] = Options["q1"][3]],
      [k \in AllKeys \ {"q7", "q30"} |-> FirstOptions[k]],
      [k \in AllKeys \ LearningKeySet |-> FirstOptions[k]] }

\* generate_pdf_report(analysis, answers, timestamp, model) is entered.
InitReport ==
    /\ analysis \in ReportTexts
    /\ answers \in ReportAnswers
    /\ model_choice \in {Models[1], Models[2]}
    /\ timestamp = Now(1)
    /\ story = << >>
    /\ reports = << >>
    /\ canv = << >>
    /\ shown = << >>
    /\ pc = "pdf_cover"
    /\ openai_api_key = "sk-env"
    /\ api_key_widget = openai_api_key
    /\ model_widget = model_choice
    /\ depth_widget = SliderDefault
    /\ radio = FirstOptions
    /\ rerun_request = "none"
    /\ submitted = TRUE
    /\ analysis_depth = depth_widget
    /\ client = << >>
    /\ request = << >>
    /\ exc = None
    /\ pdf_buffer = << >>
    /\ in_flight = 0
    /\ page = EmptyPage

NextReport ==
    \/ ComposeCover
    \/ ComposeContents
    \/ ComposeChart
    \/ ComposeAnalysis
    \/ ComposeResponses
    \/ ComposeActionPlan
    \/ BuildDocument
    \/ ComposeAgain

SpecReport == InitReport /\ [][NextReport]_vars

\* ------------------------------------------------- the numbered canvas

\* What the document draws on a page.
ContentOps == {"drawString", "drawImage"}

\* canvas.Canvas.__init__ and NumberedCanvas.__init__: the attributes of the
\* canvas that the page numbering reads or writes, and the pages handed to the
\* document.
NewCanvas ==
    [_pageNumber |-> 1, _code |-> << >>, _saved_page_states |-> << >>,
     _doc |-> << >>]

\* canvas.Canvas._startPage: the next page number, an empty page.
Canvas_startPage(c) ==
    [c EXCEPT !._pageNumber = @ + 1, !._code = << >>]

\* canvas.Canvas.showPage: the drawing operations of the page go to the
\* document.
Canvas_showPage(c) ==
    Canvas_startPage([c EXCEPT !._doc = Append(@, c._code)])

\* NumberedCanvas.showPage: dict(self.__dict__) keeps the page number and the
\* operations of the page; nothing goes to the document.
showPage(c) ==
    Canvas_startPage([c EXCEPT !._saved_page_states =
        Append(@, [_pageNumber |-> c._pageNumber, _code |-> c._code])])

Branding == "(c) 2024 KidVentures Learning"

\* A footer whose total is the number of the page itself.
draw_page_number_running(c, page_count) ==
    [c EXCEPT !._code = @ \o
        << "Page " \o ToString(c._pageNumber) \o " of " \o ToString(c._pageNumber),
           Branding >>]

draw_page_number(c, page_count) ==
    [c EXCEPT !._code = @ \o
        << "Page " \o ToString(c._pageNumber) \o " of " \o ToString(page_count),
           Branding >>]

RECURSIVE save_pages(_, _, _)
\* for state in self._saved_page_states: ..., from the i-th state on.
save_pages(c, i, num_pages) ==
    IF i > Len(c._saved_page_states) THEN c
    ELSE save_pages(
            Canvas_showPage(
                draw_page_number(
                    [c EXCEPT !._pageNumber = c._saved_page_states[i]._pageNumber,
                              !._code = c._saved_page_states[i]._code],
                    num_pages)),
            i + 1, num_pages)

\* canvas.Canvas.save: a page still open is closed by self.showPage(), the
\* method of NumberedCanvas; then the document is written.
Canvas_save(c) == IF Len(c._code) > 0 THEN showPage(c) ELSE c

\* NumberedCanvas.save
save(c) == Canvas_save(save_pages(c, 1, Len(c._saved_page_states)))

canvas_frame ==
    << openai_api_key, api_key_widget, model_widget, depth_widget, radio,
       rerun_request, submitted, model_choice, analysis_depth, answers, client,
       request, analysis, exc, pdf_buffer, in_flight, page, timestamp, story,
       reports >>

\* The document draws a flowable on the page.
DrawFlowable(op) ==
    /\ pc = "canvas"
    /\ Len(canv._code) < MaxDraws
    /\ canv' = [canv EXCEPT !._code = Append(@, op)]
    /\ UNCHANGED << pc, shown >>
    /\ UNCHANGED canvas_frame

\* The document ends a page: canv.showPage().
ShowPage ==
    /\ pc = "canvas"
    /\ Len(shown) < MaxPages
    /\ canv' = showPage(canv)
    /\ shown' = Append(shown, canv._code)
    /\ UNCHANGED pc
    /\ UNCHANGED canvas_frame

\* The document is complete: canv.save().
Save ==
    /\ pc = "canvas"
    /\ canv' = save(canv)
    /\ pc' = "canvas_saved"
    /\ UNCHANGED shown
    /\ UNCHANGED canvas_frame

\* doc.build has made its canvas: canvasmaker(...).
InitCanvas ==
    /\ canv = NewCanvas
    /\ shown = << >>
    /\ pc = "canvas"
    /\ timestamp = Now(1)
    /\ story = << >>
    /\ reports = << >>
    /\ analysis = Blocks[1]
    /\ answers = FirstOptions
    /\ openai_api_key = "sk-env"
    /\ api_key_widget = openai_api_key
    /\ model_widget = Models[1]
    /\ depth_widget = SliderDefault
    /\ radio = FirstOptions
    /\ rerun_request = "none"
    /\ submitted = TRUE
    /\ model_choice = model_widget
    /\ analysis_depth = depth_widget
    /\ client = << >>
    /\ request = << >>
    /\ exc = None
    /\ pdf_buffer = << >>
    /\ in_flight = 0
    /\ page = EmptyPage

NextCanvas ==
    \/ \E op \in ContentOps : DrawFlowable(op)
    \/ ShowPage
    \/ Save

SpecCanvas == InitCanvas /\ [][NextCanvas]_vars

\* ================================================================== claims

NoArtifact ==
    /\ pdf_buffer = << >>
    /\ page.download = << >>
    /\ ~page.success
    /\ page.preview = None
    /\ page.metrics = << >>

NoRequest ==
    /\ client = << >>
    /\ request = << >>
    /\ in_flight = 0

\* msg quotes analysis text: eight consecutive characters of a text the
\* provider can return occur in it.
HasAnalysisText(msg) ==
    \E t \in ProviderTexts : \E i \in 1..(Len(t) - 7) :
        contains(SubSeq(t, i, i + 7), msg)

\* C1: a submission in which some question has no answer (None or "") is
\* rejected with the incomplete-submission error: the validation step makes
\* no client and no request, composes nothing, and leaves the answers and
\* the radios as they were; no artifact is on the page with that error.
C1_IncompleteRejected ==
    /\ [](page.error = IncompleteMsg => NoArtifact /\ NoRequest)
    /\ [][(pc = "process" /\ submitted /\ ~all_values(answers)) =>
            /\ pc' = "footer"
            /\ page'.error = IncompleteMsg
            /\ client' = << >> /\ request' = << >> /\ in_flight' = 0
            /\ pdf_buffer' = << >> /\ page'.download = << >>
            /\ answers' = answers
            /\ radio' = radio]_vars

C1_Witness ==
    /\ pc = "footer"
    /\ page.error = IncompleteMsg
    /\ answers["q1"] = None
    /\ answers["q30"] = Options["q30"][2]
    /\ radio = answers

\* C2: after a failed provider call (a request was sent and the run is in its
\* except clause or past it without an analysis) no PDF is composed, no
\* download, success message, preview or score display is on the page, and
\* the error shown is "Error: " plus the exception text, free of analysis text.
C2_ProviderFailure ==
    (pc \in {"except", "footer"} /\ request # << >> /\ analysis = None) =>
        /\ NoArtifact
        /\ ~HasAnalysisText(page.error)
        /\ (pc = "footer" => page.error = ErrorPrefix \o exc /\ page.info)

C2_Witness ==
    /\ pc = "footer"
    /\ exc \in ProviderErrors
    /\ page.error = ErrorPrefix \o exc
    /\ request # << >>

\* C3: the steps of a provider failure (the call raising, the except clause)
\* change neither the radios nor the run's Answer Set nor the credential,
\* model and slider; in the except clause the Answer Set is still the one
\* that was sent.
C3_FailureKeepsAnswers ==
    /\ []((pc \in {"except", "footer"} /\ request # << >>) =>
            /\ DOMAIN answers = AllKeys
            /\ join_responses(answers, 1) = request[1].user_responses)
    /\ [][((pc = "calling" /\ pc' = "except")
                \/ (pc = "except" /\ analysis = None /\ pc' = "footer")) =>
            /\ radio' = radio
            /\ answers' = answers
            /\ openai_api_key' = openai_api_key
            /\ api_key_widget' = api_key_widget
            /\ model_widget' = model_widget
            /\ depth_widget' = depth_widget]_vars

C3_Witness ==
    /\ pc = "footer"
    /\ exc \in ProviderErrors
    /\ page.error # ""
    /\ radio["q1"] = Options["q1"][3]
    /\ answers["q1"] = Options["q1"][3]
    /\ model_widget = Models[2]

\* C4: a submission processed while the stored credential is empty ends with
\* the missing-credential error, no client, no request and no artifact; and
\* whenever a client or a request exists, all 30 answers are present and the
\* credential stored and sent is not empty.
C4_CredentialGate ==
    /\ (pc = "footer" /\ submitted /\ openai_api_key = "") =>
            /\ page.error = MissingKeyMsg
            /\ NoRequest
            /\ NoArtifact
    /\ (client # << >> \/ request # << >> \/ in_flight > 0) =>
            /\ DOMAIN answers = AllKeys
            /\ all_values(answers)
            /\ openai_api_key # ""
            /\ client # << >> /\ client[1].api_key # ""
            /\ request # << >> => request[1].api_key # ""

C4_Witness ==
    /\ pc = "footer"
    /\ submitted
    /\ openai_api_key = ""
    /\ page.error = MissingKeyMsg

ReportProduced ==
    /\ page.success
    /\ page.download # << >>
    /\ page.download[1].data # << >>
    /\ page.download[1].data[1].analysis = page.preview
    /\ page.preview # None
    /\ page.metrics # << >>
    /\ page.error = ""

ErrorOnly ==
    /\ page.error # ""
    /\ page.download = << >>
    /\ ~page.success

\* C5: no state has both a download artifact and an error message; a
\* submission whose run has finished shows either the full report (success,
\* download with the composed PDF, preview, scores) and no error, or an error
\* and no artifact; a PDF composition that fails after a successful analysis
\* leaves no artifact.
C5_AllOrNothing ==
    /\ ~(page.download # << >> /\ page.error # "")
    /\ (pc = "idle" /\ submitted) =>
            /\ ReportProduced \/ ErrorOnly
            /\ ~(ReportProduced /\ ErrorOnly)
    /\ (pc \in {"except", "footer"} /\ analysis # None /\ exc # None) =>
            /\ pdf_buffer = << >>
            /\ page.download = << >>
    /\ page.download # << >> => page.download[1].data # << >>

C5_Witness ==
    /\ pc = "footer"
    /\ analysis \in ProviderTexts
    /\ exc \in PdfErrors(analysis)
    /\ page.error = ErrorPrefix \o exc
    /\ page.download = << >>

Sum(s) == s.visual + s.auditory + s.kinesthetic

\* C7: for any Answer Set, with odd texts or missing keys, the scores have
\* exactly the keys visual, auditory, kinesthetic, each an integer in 0..6,
\* and sum to at most 18.
C7_ScoreRange ==
    page.metrics # << >> =>
        LET s == page.metrics[1]
        IN  /\ DOMAIN s = {"visual", "auditory", "kinesthetic"}
            /\ \A c \in DOMAIN s : s[c] \in 0..6
            /\ Sum(s) <= 18

C7_Witness ==
    /\ page.metrics # << >>
    /\ "q3" \notin DOMAIN answers
    /\ Sum(page.metrics[1]) = 5

ValidLearning(dict) ==
    \A k \in LearningKeySet : k \in DOMAIN dict /\ dict[k] \in OptionSet(k)

\* C8: for a valid Answer Set the score of each category is the number of
\* questions q1..q6 answered with that category's option (first = visual,
\* second = auditory, third = kinesthetic).
C8_ScoreCountsOptions ==
    (page.metrics # << >> /\ ValidLearning(answers)) =>
        \A i \in 1..3 :
            page.metrics[1][Categories[i]] =
                Cardinality({k \in LearningKeySet : answers[k] = Options[k][i]})

C8_Witness ==
    /\ page.metrics # << >>
    /\ ValidLearning(answers)
    /\ \A k \in LearningKeySet : answers[k] = Options[k][3]
    /\ page.metrics[1] = [visual |-> 0, auditory |-> 0, kinesthetic |-> 6]

\* The keywords of category i for question k.
CategoryKeywords(k, i) ==
    {learning_map[k][i]} \cup
        (CASE i = 1 -> {"visual", "picture"}
           [] i = 2 -> {"audi", "hear"}
           [] OTHER -> {"kines", "doing", "build", "texture"})

\* The first category (1..3) one of whose keywords occurs in the lower-cased
\* answer to k, 0 if there is none.
FirstMatch(k, dict) ==
    LET a == lower(get(dict, k, ""))
        hits == {i \in 1..3 : \E w \in CategoryKeywords(k, i) : contains(w, a)}
    IN  IF hits = {} THEN 0 ELSE CHOOSE i \in hits : \A j \in hits : i <= j

\* C9: each of q1..q6 adds one to the first of visual, auditory, kinesthetic
\* one of whose keywords occurs, case-insensitively, in its answer, and to
\* none if there is no such category or no answer; nothing else (q7..q30)
\* enters the scores, and scoring leaves the Answer Set as it was.
C9_FirstMatchOnly ==
    /\ [](page.metrics # << >> =>
            \A first \in {{<< k, FirstMatch(k, answers) >> : k \in LearningKeySet}} :
                \A i \in 1..3 :
                    page.metrics[1][Categories[i]] =
                        Cardinality({p \in first : p[2] = i}))
    /\ [][answers' = answers]_vars

C9_Witness ==
    /\ page.metrics # << >>
    /\ "q1" \in DOMAIN answers
    /\ answers["q1"] = OddTexts[1]
    /\ page.metrics[1].visual >= 1
    /\ Sum(page.metrics[1]) = 6

\* C10 as stated: some declared option of q1..q6 scores into no category.
C10_Original ==
    \E k \in LearningKeySet : \E o \in 1..3 :
        Sum(calculate_dimension_scores([j \in {k} |-> Options[k][o]])) = 0

\* C10, amended: every declared option of q1..q6 scores into a category, so
\* the scores of a valid Answer Set sum to exactly 6.
C10_OptionsCovered ==
    (page.metrics # << >> /\ ValidLearning(answers)) => Sum(page.metrics[1]) = 6

C10_Witness ==
    /\ page.metrics # << >>
    /\ ValidLearning(answers)
    /\ answers["q1"] = Options["q1"][1]
    /\ answers["q2"] = Options["q2"][2]
    /\ page.metrics[1] = [visual |-> 1, auditory |-> 5, kinesthetic |-> 0]

\* ---------------------------------------------------------------- C11

\* dict has exactly the keys q1..q30, each on an option of its question.
WellFormed(dict) ==
    /\ DOMAIN dict = AllKeys
    /\ \A k \in AllKeys : dict[k] \in OptionSet(k)

\* C11: every Answer Set that reaches the analysis request, the report
\* composer or the scorer has exactly the keys q1..q30, each mapped to one of
\* the options declared for that question, whatever options were changed and
\* however often the form was submitted before: the request carries the 30
\* "key: option" lines of such a set, and the report and the metrics are made
\* from one.
C11_AnswerSetWellFormed ==
    /\ pc \in {"call", "calling", "compose", "success", "download", "preview",
                "scores", "except"} => WellFormed(answers)
    /\ pc = "calling" =>
            request[1].user_responses = join_responses(answers, 1)
    /\ pdf_buffer # << >> => WellFormed(pdf_buffer[1].answers)
    /\ pc = "footer" /\ page.metrics # << >> => WellFormed(answers)

\* A resubmission after an option change has reached the scorer.
C11_Witness ==
    /\ pc = "footer"
    /\ page.metrics # << >>
    /\ pdf_buffer # << >>
    /\ answers[QKeys[1]] = Options[QKeys[1]][2]
    /\ request # << >>

\* ---------------------------------------------------------------- C12

\* The story with the timestamp cell of the cover's table blanked.
WithoutTimestamp(flowables) ==
    [i \in 1..Len(flowables) |->
        IF flowables[i].flowable = "Table"
                /\ flowables[i].data[1][1] = "Report Generated:"
        THEN [flowables[i] EXCEPT !.data[1][2] = ""]
        ELSE flowables[i]]

\* C12: composing the report again from the same answers, analysis text and
\* model gives the same sequence of flowables (cover, contents, chart and
\* breakdown, analysis, response tables, action plan) except for the
\* timestamp on the cover, and no step of the composition changes the
\* answers, the analysis text or the model, or leaves anything in the story
\* for the next composition.
C12_ComposeIdempotent ==
    /\ [](\A i, j \in 1..Len(reports) :
            WithoutTimestamp(reports[i]) = WithoutTimestamp(reports[j]))
    /\ [](pc = "pdf_cover" => story = << >>)
    /\ [][/\ answers' = answers
          /\ analysis' = analysis
          /\ model_choice' = model_choice]_vars

\* Two reports were composed, alike but for their timestamps.
C12_Witness ==
    /\ Len(reports) = 2
    /\ reports[1] # reports[2]
    /\ Len(reports[1]) > 40

\* ---------------------------------------------------------------- C13

IsResponseTable(f) ==
    f.flowable = "Table" /\ f.data[1] = << "Question", "Response" >>

ResponseTables(flowables) == SelectSeq(flowables, IsResponseTable)

RowsPerTable == 6

\* C13: the response section of every composed report is five tables of six
\* rows under a header row; row i of table d carries the text of question
\* q(6(d-1)+i) and exactly the answer held for that key, 'Not answered' when
\* and only when the key is absent; so every question q1..q30 has exactly one
\* row, in ascending order.
C13_ResponseTables ==
    \A r \in 1..Len(reports) :
        \A T \in {ResponseTables(reports[r])} :
            /\ Len(T) * RowsPerTable = NumQuestions
            /\ \A d \in 1..Len(T) :
                    /\ Len(T[d].data) = RowsPerTable + 1
                    /\ \A i \in 1..RowsPerTable :
                        \A k \in {QKeys[RowsPerTable * (d - 1) + i]} :
                            /\ T[d].data[i + 1][1] = question_texts[k]
                            /\ k \in DOMAIN answers =>
                                    T[d].data[i + 1][2] = answers[k]
                            /\ k \notin DOMAIN answers <=>
                                    T[d].data[i + 1][2] = "Not answered"
            /\ \A k \in AllKeys :
                    Cardinality({p \in (1..Len(T)) \X (1..RowsPerTable) :
                        T[p[1]].data[p[2] + 1][1] = question_texts[k]}) = 1

\* A report was composed from an Answer Set without q7 and with q1 changed
\* or not: its second table shows 'Not answered' for q7 and the answer of q8.
C13_Witness ==
    /\ Len(reports) > 0
    /\ "q7" \notin DOMAIN answers
    /\ "q8" \in DOMAIN answers
    /\ ResponseTables(reports[1])[2].data[2][2] = "Not answered"
    /\ ResponseTables(reports[1])[2].data[3][2] = answers["q8"]

\* ---------------------------------------------------------------- C14

IsParagraph(f) == f.flowable = "Paragraph"

IsHeading(f) == f.style \in {"heading1_style", "heading2_style"}

\* The paragraphs of a story between the title of the analysis section and
\* the page break that ends the section.
AnalysisElements(flowables) ==
    LET first ==
            CHOOSE i \in 1..Len(flowables) :
                flowables[i] = Paragraph("Comprehensive AI Analysis", "heading1_style")
        last ==
            CHOOSE j \in (first + 1)..Len(flowables) :
                /\ flowables[j] = PageBreak
                /\ \A l \in (first + 1)..(j - 1) : flowables[l] # PageBreak
    IN  SelectSeq(SubSeq(flowables, first + 1, last - 1), IsParagraph)

\* C14 as the specification states it: every line of the analysis text that
\* begins with '#' becomes a heading of its own that holds only the text of
\* that line with the markers removed, and every other line that is not
\* blank is found in a paragraph that is no heading.
C14_Original ==
    \A r \in 1..Len(reports) :
        \A E \in {AnalysisElements(reports[r])} :
        \A L \in {split(analysis, "\n")} :
            /\ Cardinality({i \in 1..Len(E) : IsHeading(E[i])})
                    = Cardinality({l \in 1..Len(L) : startswith(L[l], "#")})
            /\ \A i \in 1..Len(E) :
                    IsHeading(E[i]) =>
                        /\ find(E[i].text, "\n") = 0
                        /\ ~startswith(E[i].text, "#")
                        /\ \E l \in 1..Len(L) :
                                /\ startswith(L[l], "#")
                                /\ contains(E[i].text, L[l])
            /\ \A l \in 1..Len(L) :
                    strip(L[l]) # "" /\ ~startswith(L[l], "#") =>
                        \E i \in 1..Len(E) :
                            /\ ~IsHeading(E[i])
                            /\ \/ contains(L[l], E[i].text)
                               \/ contains(replace(L[l], "**", ""), E[i].text)

\* ---------------------------------------------------------------- C15

IsFooter(op) == startswith(op, "Page ") \/ op = Branding

\* C15: no footer is drawn and no page reaches the document before save;
\* after N showPage calls, save hands the document exactly N pages in the
\* order they were closed, and page k is what was drawn on it followed by
\* "Page k of N" and the branding, N being the final total on every page.
C15_PageFooters ==
    /\ pc = "canvas" =>
            /\ canv._doc = << >>
            /\ \A i \in 1..Len(canv._code) : ~IsFooter(canv._code[i])
            /\ \A k \in 1..Len(canv._saved_page_states) :
                    canv._saved_page_states[k]._code = shown[k]
    /\ pc = "canvas_saved" =>
            /\ Len(canv._doc) = Len(shown)
            /\ \A k \in 1..Len(shown) :
                    canv._doc[k] =
                        shown[k] \o << "Page " \o ToString(k) \o " of "
                                            \o ToString(Len(shown)),
                                       Branding >>

\* A document of three pages was saved; its second page has content.
C15_Witness ==
    /\ pc = "canvas_saved"
    /\ Len(shown) = 3
    /\ Len(shown[2]) > 0
    /\ canv._doc[2][Len(shown[2]) + 1] = "Page 2 of 3"

\* ---------------------------------------------------------------- C16

\* C16: a submission sends at most one provider request and none after a
\* failure: a request is sent only in a submitted run that has sent none and
\* raised nothing, after the validation and the credential check have passed
\* in that order (the credential error is shown only for complete answers);
\* the PDF exists only after the provider has answered the request of this
\* run with the analysis it is composed from, and the download is offered
\* only for the PDF that was composed.
C16_SubmissionOrder ==
    /\ [][in_flight' > in_flight =>
            /\ submitted
            /\ in_flight = 0
            /\ client = << >> /\ request = << >>
            /\ exc = None /\ analysis = None /\ pdf_buffer = << >>
            /\ all_values(answers)
            /\ openai_api_key # ""
            /\ page.error = ""]_vars
    /\ [](pc = "footer" /\ page.error = MissingKeyMsg =>
            all_values(answers) /\ NoRequest)
    /\ [](exc # None => pc \in {"except", "footer"})
    /\ [](pdf_buffer # << >> =>
            /\ request # << >> /\ in_flight = 0
            /\ analysis # None
            /\ pdf_buffer[1].analysis = analysis
            /\ exc = None)
    /\ [][page'.download # page.download /\ page'.download # << >> =>
            /\ pdf_buffer # << >>
            /\ page'.download[1].data = pdf_buffer]_vars

\* A submission went through all five steps.
C16_Witness ==
    /\ pc = "footer"
    /\ submitted
    /\ request # << >>
    /\ analysis # None
    /\ pdf_buffer # << >>
    /\ page.download # << >>

\* ---------------------------------------------------------------- C17

\* C17: every radio always holds one of the options declared for its
\* question; the incomplete-submission error is never on the page; a
\* submitted run that stops at the validation stops on the credential test
\* only; and the Answer Set the form makes of untouched radios has every
\* question on its first option and passes the validation.
C17_AlwaysSelected ==
    /\ [](\A k \in AllKeys : radio[k] \in OptionSet(k))
    /\ [](page.error # IncompleteMsg)
    /\ [][pc = "process" /\ pc' = "footer" /\ submitted =>
            /\ openai_api_key = ""
            /\ page'.error = MissingKeyMsg]_vars
    /\ [][pc = "form" /\ pc' = "process" /\ radio = FirstOptions =>
            answers' = FirstOptions /\ all_values(answers')]_vars

\* The untouched form was submitted and has passed the validation.
C17_Witness ==
    /\ pc = "call"
    /\ submitted
    /\ radio = FirstOptions
    /\ answers = FirstOptions
    /\ page.error = ""

\* ---------------------------------------------------------------- C18

\* C18: the stored credential changes only to a non-empty text of the
\* credential field, so once non-empty it stays non-empty and an emptied
\* field leaves it as it was; a submitted run that shows the warning of the
\* empty field while a credential is stored goes on to the provider call,
\* and the request it sends carries the stored credential.
C18_CredentialSticky ==
    /\ [][openai_api_key' # openai_api_key =>
            /\ api_key_widget # ""
            /\ openai_api_key' = api_key_widget]_vars
    /\ [][openai_api_key # "" => openai_api_key' # ""]_vars
    /\ [][/\ pc = "process" /\ pc' \notin {"process", "sidebar"}
          /\ submitted
          /\ page.key_status = "warning"
          /\ openai_api_key # ""
          => pc' = "call"]_vars
    /\ [](pc = "calling" =>
            /\ openai_api_key # ""
            /\ request[1].api_key = openai_api_key
            /\ client[1].api_key = openai_api_key)

\* The field was emptied after a credential was stored, the warning is on
\* the page, and the submission has sent its request with that credential.
C18_Witness ==
    /\ pc = "calling"
    /\ api_key_widget = ""
    /\ page.key_status = "warning"
    /\ request[1].api_key = "sk-user"

====
